---- MODULE Spec2Model ----
(***************************************************************************)
(* A model of week1/tools.py: the dataset indexer (create_image_lists),    *)
(* the batch iterator (ImageListIterator), the error-swallowing generator  *)
(* wrapper (except_catcher) and the identifier builder (Config).           *)
(*                                                                         *)
(* Names of files and directories are sequences of one-character strings,  *)
(* so that lower-casing, the label regular expression and glob matching    *)
(* are computed character by character.  A path is a sequence of names.    *)
(***************************************************************************)
EXTENDS Integers, Sequences, FiniteSets, TLC

(***************************************************************************)
(* Bounds of the model.                                                    *)
(***************************************************************************)
\* the file system holds at most MaxEntries directories and files below the root
MaxEntries == 4
\* the threads pull at most MaxBatches index allocations from one iterator
MaxBatches == 4
\* the wrapper pulls at most MaxPulls times from its producer
MaxPulls == 5
\* a Config(...) call has at most MaxKwargs keyword arguments
MaxKwargs == 4

(***************************************************************************)
(* Generic helpers.                                                        *)
(***************************************************************************)
Range(s) == { s[i] : i \in DOMAIN s }

RECURSIVE Flatten(_)
Flatten(ss) == IF ss = <<>> THEN <<>> ELSE Head(ss) \o Flatten(Tail(ss))

RECURSIVE SelectSeqBy(_, _)
\* the subsequence of s whose elements lie in the set keep
SelectSeqBy(s, keep) ==
    IF s = <<>> THEN <<>>
    ELSE IF Head(s) \in keep THEN <<Head(s)>> \o SelectSeqBy(Tail(s), keep)
         ELSE SelectSeqBy(Tail(s), keep)

(***************************************************************************)
(* Characters: str.lower() and the class [a-z0-9] of the label regex.      *)
(***************************************************************************)
UPPER == << "A","B","C","D","E","F","G","H","I","J","K","L","M",
            "N","O","P","Q","R","S","T","U","V","W","X","Y","Z" >>
LOWER == << "a","b","c","d","e","f","g","h","i","j","k","l","m",
            "n","o","p","q","r","s","t","u","v","w","x","y","z" >>
DIGITS == << "0","1","2","3","4","5","6","7","8","9" >>

LowerChar(c) ==
    IF \E i \in DOMAIN UPPER : UPPER[i] = c
    THEN LOWER[CHOOSE i \in DOMAIN UPPER : UPPER[i] = c]
    ELSE c

\* str.lower()
Lower(name) == [ i \in DOMAIN name |-> LowerChar(name[i]) ]

\* membership in the character class [a-z0-9]
IsLabelChar(c) == c \in Range(LOWER) \cup Range(DIGITS)

RECURSIVE ReSubRuns(_, _)
\* re.sub(r'[^a-z0-9]+', ' ', s): every maximal run of characters outside
\* [a-z0-9] becomes one space; inRun says the previous character was in a run
ReSubRuns(s, inRun) ==
    IF s = <<>> THEN <<>>
    ELSE IF IsLabelChar(Head(s)) THEN <<Head(s)>> \o ReSubRuns(Tail(s), FALSE)
         ELSE IF inRun THEN ReSubRuns(Tail(s), TRUE)
              ELSE <<" ">> \o ReSubRuns(Tail(s), TRUE)

\* re.sub(r'[^a-z0-9]+', ' ', dir_name.lower())
LabelName(dir_name) == ReSubRuns(Lower(dir_name), FALSE)

(***************************************************************************)
(* Program constants.                                                      *)
(***************************************************************************)
MAX_NUM_IMAGES_PER_CLASS == 134217727      \* 2 ** 27 - 1

\* the frozenset of accepted extensions
VALID_IMAGE_FORMATS ==
    { <<"j","p","g">>, <<"j","p","e","g">>, <<"J","P","G">>, <<"J","P","E","G">> }

(***************************************************************************)
(* The names the model's file system draws from.                           *)
(***************************************************************************)
\* image_dir as the caller passes it: one relative path component
ImageDir == <<"i","m","g">>

D_plain == <<"b">>
D_mixed == <<"A","-","_">>          \* label "a "
D_star  == <<"A","*">>              \* label "a " too; a glob pattern
D_root  == ImageDir                 \* a sub-directory named like image_dir
DirNames == { D_plain, D_mixed, D_star, D_root }

F_zero == <<"2","6","8","3","3","4","9","5",".","j","p","g">>
F_mid  == <<"b",".","J","P","G">>
F_png  == <<"n",".","p","n","g">>
FileNames == { F_zero, F_mid, F_png }

(***************************************************************************)
(* State.                                                                  *)
(***************************************************************************)
VARIABLES
    tree,            \* the file system below image_dir: relative directory path
                     \*   |-> [dirs, files], each in the order scandir lists them
    validation_pct,  \* the validation_pct argument of the indexing calls
    image_lists,     \* the dictionary the last create_image_lists call returned
    indexed,         \* whether create_image_lists has returned yet
    assigned         \* history: base name |-> the categories any call put it in

indexVars == << tree, validation_pct, image_lists, indexed, assigned >>

VARIABLES
    it_args,         \* the arguments the iterator is constructed with
    self,            \* the iterator object the constructor builds
    batch_index,     \* self.batch_index
    total_batches_seen,  \* self.total_batches_seen
    index_array,     \* the index generator's index_array of the running epoch
    gen_state,       \* the index generator: "running", or "finished" once an
                     \*   exception has left it
    lock,            \* self.lock: the thread holding it, or NoThread
    pc,              \* thread |-> its position in next()
    frame            \* thread |-> the local variables of its call of next()

iterVars == << it_args, self, batch_index, total_batches_seen, index_array,
               gen_state, lock, pc, frame >>

VARIABLES
    producer,        \* the wrapped producer: its kind, and whether it can still
                     \*   return values
    pulls,           \* history: the outcome of each next(gen), in order
    yielded,         \* history: the values the wrapped sequence has yielded
    printed,         \* the number of diagnostics printed
    catcher          \* the wrapper generator: "suspended", "running" or
                     \*   "finished"

catchVars == << producer, pulls, yielded, printed, catcher >>

VARIABLES
    kwargs,          \* the keyword arguments of the Config(...) call, in order
    config,          \* the Config object constructed from them
    result           \* what reading config.identifier gave

configVars == << kwargs, config, result >>

VARIABLES
    allocations      \* history: for each pull of except_catcher on the iterator,
                     \*   the index_array and current_index next() was given

pipeVars == << allocations >>

vars == << indexVars, iterVars, catchVars, configVars, pipeVars >>

\* what the actions of one component leave unchanged
notIndex  == << iterVars, catchVars, configVars, pipeVars >>
notIter   == << indexVars, catchVars, configVars, pipeVars >>
notCatch  == << indexVars, iterVars, configVars, pipeVars >>
notConfig == << indexVars, iterVars, catchVars, pipeVars >>
notPipe   == << indexVars, configVars >>

(***************************************************************************)
(* The file system, os.walk and glob.glob.                                 *)
(***************************************************************************)
RECURSIVE SumLen(_, _)
SumLen(t, paths) ==
    IF paths = {} THEN 0
    ELSE LET p == CHOOSE q \in paths : TRUE
         IN  Len(t[p].dirs) + Len(t[p].files) + SumLen(t, paths \ {p})

\* the number of directories and files below the root
NumEntries(t) == SumLen(t, DOMAIN t)

RECURSIVE WalkFrom(_, _)
\* os.walk(top), top-down: the directory itself, then each sub-directory's walk
WalkFrom(t, path) ==
    <<path>> \o Flatten([ i \in DOMAIN t[path].dirs |->
                            WalkFrom(t, Append(path, t[path].dirs[i])) ])

\* sub_dirs = [x[0] for x in os.walk(image_dir)]
SubDirs(t) == WalkFrom(t, <<>>)

\* os.path.basename of a non-empty path
BaseName(path) == path[Len(path)]

\* glob.has_magic: the pattern holds one of * ? [
HasMagic(name) == \E i \in DOMAIN name : name[i] \in {"*", "?", "["}

\* glob._ishidden
IsHidden(name) == name # <<>> /\ name[1] = "."

RECURSIVE FnMatch(_, _)
\* fnmatch.fnmatchcase(name, pat) for patterns of literals, * and ?
FnMatch(name, pat) ==
    IF pat = <<>> THEN name = <<>>
    ELSE IF Head(pat) = "*"
         THEN FnMatch(name, Tail(pat))
              \/ (name # <<>> /\ FnMatch(Tail(name), pat))
         ELSE /\ name # <<>>
              /\ (Head(pat) = "?" \/ Head(pat) = Head(name))
              /\ FnMatch(Tail(name), Tail(pat))

\* the file-name pattern of one extension: '*.' + extension
ExtPattern(extension) == <<"*", ".">> \o extension

\* FnMatch tabulated once for the names and patterns of the model
FnMatchTable ==
    [ n \in DirNames \cup FileNames,
      p \in DirNames \cup { ExtPattern(e) : e \in VALID_IMAGE_FORMATS } |->
        FnMatch(n, p) ]

\* glob._glob1 on a listing: the names that match, hidden ones only for a
\* hidden pattern
Glob1(names, pattern) ==
    LET Keep(n) == FnMatchTable[n, pattern]
                   /\ (IsHidden(pattern) \/ ~IsHidden(n))
    IN  SelectSeq(names, Keep)

\* the directories that os.path.join(image_dir, dir_name) expands to: with a
\* magic dir_name every matching entry of image_dir, else the path as written
GlobDirs(t, dir_name) ==
    IF HasMagic(dir_name)
    THEN LET hits == Glob1(t[<<>>].dirs, dir_name)
         IN  [ i \in DOMAIN hits |-> <<hits[i]>> ]
    ELSE << <<dir_name>> >>

\* glob.glob(os.path.join(image_dir, dir_name, '*.' + extension))
GlobExt(t, dir_name, extension) ==
    LET dirs == GlobDirs(t, dir_name)
        In(d) == IF d \in DOMAIN t
                 THEN LET hits == Glob1(t[d].files, ExtPattern(extension))
                      IN  [ i \in DOMAIN hits |-> Append(d, hits[i]) ]
                 ELSE <<>>
    IN  Flatten([ i \in DOMAIN dirs |-> In(dirs[i]) ])

\* file_list after the loop over VALID_IMAGE_FORMATS, iterated in the order exts
FileList(t, dir_name, exts) ==
    Flatten([ i \in DOMAIN exts |-> GlobExt(t, dir_name, exts[i]) ])

(***************************************************************************)
(* create_image_lists.                                                     *)
(***************************************************************************)
\* int(hashlib.sha1(as_bytes(base_name)).hexdigest(), 16)
\*     % (MAX_NUM_IMAGES_PER_CLASS + 1)
\* for the base names of the model: the values are those of the real digests
Sha1Mod(base_name) ==
    CASE base_name = F_zero -> 0
      [] base_name = F_mid  -> 44914163
      [] base_name = F_png  -> 15775379

\* hash_pct < validation_pct, where hash_pct = r * (100.0 / MAX) for the
\* residue r.  For an integer validation_pct the floating-point comparison
\* agrees with the exact one, r * 100 < validation_pct * MAX (the products are
\* never closer than 1/MAX to an integer unless equal to it, and
\* MAX * (100.0 / MAX) is exactly 100.0).  With MAX = 100 * k + m the exact
\* comparison is evaluated without leaving 32 bits.
HashPctLess(r, pct) ==
    LET k == MAX_NUM_IMAGES_PER_CLASS \div 100
        m == MAX_NUM_IMAGES_PER_CLASS % 100
        d == r - pct * k
    IN  IF d < 0 THEN TRUE
        ELSE IF d > m THEN FALSE
        ELSE d * 100 < pct * m

\* a variant of the test with <= in place of <: equality needs
\* r * 100 = pct * MAX, that is r = 0 = pct, or r = MAX and pct = 100
InValidationLe(base_name, pct) ==
    \/ HashPctLess(Sha1Mod(base_name), pct)
    \/ (Sha1Mod(base_name) = MAX_NUM_IMAGES_PER_CLASS /\ pct = 100)
    \/ (Sha1Mod(base_name) = 0 /\ pct = 0)

\* the test of the if statement that assigns base_name to validation
InValidation(base_name, pct) == HashPctLess(Sha1Mod(base_name), pct)

RECURSIVE SplitByPosition(_, _, _)
\* a variant that cuts the list by position, as copy_images does: the files
\* listed first, validation_pct percent of them, go to validation
SplitByPosition(file_list, pct, acc) ==
    IF file_list = <<>> THEN acc
    ELSE LET base_name == BaseName(Head(file_list))
             seen      == Len(acc.training) + Len(acc.validation)
             total     == seen + Len(file_list)
         IN  SplitByPosition(Tail(file_list), pct,
               IF seen * 100 < pct * total
               THEN [ acc EXCEPT !.validation = Append(@, base_name) ]
               ELSE [ acc EXCEPT !.training = Append(@, base_name) ])

RECURSIVE SplitNoElse(_, _, _)
\* a variant of the loop without the else: every file goes to training too
SplitNoElse(file_list, pct, acc) ==
    IF file_list = <<>> THEN acc
    ELSE LET base_name == BaseName(Head(file_list))
         IN  SplitNoElse(Tail(file_list), pct,
               [ training   |-> Append(acc.training, base_name),
                 validation |-> IF InValidation(base_name, pct)
                                THEN Append(acc.validation, base_name)
                                ELSE acc.validation ])

RECURSIVE Split(_, _, _)
\* the loop over file_list: each base name is appended to validation_images
\* or to training_images
Split(file_list, pct, acc) ==
    IF file_list = <<>> THEN acc
    ELSE LET base_name == BaseName(Head(file_list))
         IN  Split(Tail(file_list), pct,
               IF InValidation(base_name, pct)
               THEN [ acc EXCEPT !.validation = Append(@, base_name) ]
               ELSE [ acc EXCEPT !.training = Append(@, base_name) ])

\* image_lists[label_name] = {'dir': ..., 'training': ..., 'validation': ...}
Put(lists, label_name, record) ==
    [ l \in DOMAIN lists \cup {label_name} |->
        IF l = label_name THEN record ELSE lists[l] ]

\* the files the body of the loop over sub_dirs looks at: it globs
\* image_dir/dir_name, where dir_name is the base name of the walked path
ClassFiles(t, sub_dir, exts) == FileList(t, BaseName(sub_dir), exts)

\* if dir_name == image_dir: continue
SkipDir(dir_name, image_dir) == dir_name = image_dir

\* LabelName tabulated once for the directory names of the model
LabelTable == [ d \in DirNames |-> LabelName(d) ]

RECURSIVE ScanSubDirs(_, _, _, _, _)
\* the loop over sub_dirs_without_root
ScanSubDirs(t, sub_dirs, pct, exts, lists) ==
    IF sub_dirs = <<>> THEN lists
    ELSE LET sub_dir   == Head(sub_dirs)
             dir_name  == BaseName(sub_dir)
             file_list == ClassFiles(t, sub_dir, exts)
             split     == Split(file_list, pct,
                                [ training |-> <<>>, validation |-> <<>> ])
             record    == [ dir        |-> dir_name,
                            training   |-> split.training,
                            validation |-> split.validation ]
         IN  ScanSubDirs(t, Tail(sub_dirs), pct, exts,
               IF SkipDir(dir_name, ImageDir) \/ file_list = <<>>
               THEN lists
               ELSE Put(lists, LabelTable[dir_name], record))

\* create_image_lists(image_dir, validation_pct) on the file system t
create_image_lists(t, pct, exts) ==
    ScanSubDirs(t, Tail(SubDirs(t)), pct, exts, <<>>)

(***************************************************************************)
(* The indexer's state machine: the environment fills the file system, the *)
(* program indexes it.                                                     *)
(***************************************************************************)
\* the validation percentages the calls are made with
Pcts == { 0, 10, 50 }

\* orders in which a run may iterate the frozenset VALID_IMAGE_FORMATS
ExtOrders ==
    { << <<"j","p","g">>, <<"j","p","e","g">>, <<"J","P","G">>, <<"J","P","E","G">> >>,
      << <<"J","P","E","G">>, <<"J","P","G">>, <<"j","p","e","g">>, <<"j","p","g">> >> }

Categories == { "training", "validation" }

EmptyDir == [ dirs |-> <<>>, files |-> <<>> ]

InitIndex ==
    /\ tree = [ p \in { <<>> } |-> EmptyDir ]
    /\ validation_pct \in Pcts
    /\ image_lists = <<>>
    /\ indexed = FALSE
    /\ assigned = [ f \in FileNames |-> {} ]

\* the directories in which the environment creates sub-directories
NestParents == { <<>>, <<D_plain>> }

\* the environment creates directory d in parent.  The caller holds an index
\* only together with the file system it was built from: a change drops it.
Mkdir(parent, d) ==
    /\ parent \in DOMAIN tree
    /\ d \notin Range(tree[parent].dirs)
    /\ NumEntries(tree) < MaxEntries
    /\ tree' = [ p \in DOMAIN tree \cup { Append(parent, d) } |->
                   IF p = parent THEN [ tree[p] EXCEPT !.dirs = Append(@, d) ]
                   ELSE IF p = Append(parent, d) THEN EmptyDir
                   ELSE tree[p] ]
    /\ image_lists' = <<>>
    /\ indexed' = FALSE
    /\ UNCHANGED << validation_pct, assigned, notIndex >>

\* the environment creates file f in a directory below the root
Touch(dir, f) ==
    /\ dir \in DOMAIN tree
    /\ dir # <<>>
    /\ f \notin Range(tree[dir].files)
    /\ NumEntries(tree) < MaxEntries
    /\ tree' = [ tree EXCEPT ![dir].files = Append(@, f) ]
    /\ image_lists' = <<>>
    /\ indexed' = FALSE
    /\ UNCHANGED << validation_pct, assigned, notIndex >>

\* the categories in which the dictionary lists a base name
CategoriesOf(lists, f) ==
    { c \in Categories : \E l \in DOMAIN lists : f \in Range(lists[l][c]) }

\* a call create_image_lists(image_dir, validation_pct) returns
CreateImageLists(exts) ==
    /\ <<>> \in DOMAIN tree          \* os.path.isdir(image_dir)
    /\ LET lists == create_image_lists(tree, validation_pct, exts)
       IN  /\ image_lists' = lists
           /\ assigned' = [ f \in FileNames |->
                              assigned[f] \cup CategoriesOf(lists, f) ]
    /\ indexed' = TRUE
    /\ UNCHANGED << tree, validation_pct, notIndex >>

NextIndex ==
    \/ \E parent \in NestParents, d \in DirNames :
          Mkdir(parent, d)
    \/ \E dir \in DOMAIN tree, f \in FileNames : Touch(dir, f)
    \/ \E exts \in ExtOrders : CreateImageLists(exts)


(***************************************************************************)
(* ImageListIterator.                                                      *)
(***************************************************************************)
Threads == { "t1", "t2" }
NoThread == "none"

\* image_dir as passed to the iterator
IterImageDir == "img"

\* dictionaries handed to the constructor: keys in insertion order, and the
\* records; a label may have an empty list in a category
ListsTwoClasses ==
    [ keys |-> << "a b", "c" >>,
      dict |-> [ l \in { "a b", "c" } |->
                   IF l = "a b"
                   THEN [ dir |-> "a-b", training |-> << "x.jpg", "y.jpg" >>,
                          validation |-> << "z.jpg" >> ]
                   ELSE [ dir |-> "c", training |-> << "x.jpg" >>,
                          validation |-> <<>> ] ] ]

ListsOneClass ==
    [ keys |-> << "c" >>,
      dict |-> [ l \in { "c" } |->
                   [ dir |-> "c", training |-> << "x.jpg" >>,
                     validation |-> <<>> ] ] ]

IterArgs ==
    [ lists      : { ListsTwoClasses, ListsOneClass },
      category   : { "training", "validation", "testing" },
      batch_size : { 1, 2 },
      shuffle    : BOOLEAN,
      class_mode : { "categorical", "sparse", "binary", "None", "onehot" } ]

\* the result of a call that raised
Raised(kind) == [ raised |-> kind ]
IsRaised(v) == DOMAIN v = { "raised" }

\* get_image_path(image_lists, label_name, index, image_dir, category): the
\* path, as its three components, or the error raised
get_image_path(lists, label_name, index, image_dir, category) ==
    IF label_name \notin DOMAIN lists THEN Raised("ValueError")
    ELSE LET label_lists == lists[label_name]
         IN  IF category \notin DOMAIN label_lists THEN Raised("ValueError")
             ELSE LET category_list == label_lists[category]
                  IN  IF category_list = <<>> THEN Raised("ValueError")
                      ELSE LET mod_index == index % Len(category_list)
                               base_name == category_list[mod_index + 1]
                               sub_dir   == label_lists["dir"]
                           IN  [ path |-> << image_dir, sub_dir, base_name >> ]

\* dict(zip(classes, range(len(classes))))
Class2Id(keys) ==
    [ l \in Range(keys) |-> (CHOOSE i \in DOMAIN keys : keys[i] = l) - 1 ]

\* a variant of the inner loop that stores the position j as the class
LabelSamplesByPosition(lists, keys, label_name, image_dir, category) ==
    [ j \in 1..Len(lists[label_name][category]) |->
        [ class |-> (j - 1) % Len(keys),
          found |-> get_image_path(lists, label_name, j - 1,
                                   image_dir, category) ] ]

\* a variant of the inner loop that looks up index 0 of every label first
LabelSamplesProbe(lists, keys, label_name, image_dir, category) ==
    LET n == Len(lists[label_name][category])
    IN  [ j \in 1..(IF n = 0 THEN 1 ELSE n) |->
            [ class |-> Class2Id(keys)[label_name],
              found |-> get_image_path(lists, label_name, j - 1,
                                       image_dir, category) ] ]

\* the inner loop of the constructor for one label: for each j the class id
\* stored in self.classes and the result of get_image_path
LabelSamples(lists, keys, label_name, image_dir, category) ==
    [ j \in 1..Len(lists[label_name][category]) |->
        [ class |-> Class2Id(keys)[label_name],
          found |-> get_image_path(lists, label_name, j - 1,
                                   image_dir, category) ] ]

\* the two nested loops of the constructor that fill classes and filenames
AllSamples(lists, keys, image_dir, category) ==
    Flatten([ k \in DOMAIN keys |->
                LabelSamples(lists, keys, keys[k], image_dir, category) ])

NewObject == [ status |-> "new" ]

\* ImageListIterator.__init__: the object, or the error the constructor raises
Construct(args) ==
    LET keys == args.lists.keys
        lists == args.lists.dict
    IN  IF \E l \in Range(keys) : args.category \notin DOMAIN lists[l]
        THEN [ status |-> "KeyError" ]       \* image_lists[label_name][category]
        ELSE IF args.class_mode \notin { "categorical", "binary", "sparse", "None" }
        THEN [ status |-> "ValueError" ]
        ELSE LET samples == AllSamples(lists, keys, IterImageDir, args.category)
             IN  IF \E i \in DOMAIN samples : IsRaised(samples[i].found)
                 THEN [ status |-> "ValueError" ]
                 ELSE [ status    |-> "ok",
                        class_mode |-> args.class_mode,
                        samples   |-> Len(samples),
                        num_class |-> Len(keys),
                        class2id  |-> Class2Id(keys),
                        classes   |-> [ i \in DOMAIN samples |-> samples[i].class ],
                        filenames |-> [ i \in DOMAIN samples |->
                                          samples[i].found.path ] ]

IdleFrame == [ index_array |-> <<>>, current_index |-> 0, i |-> 0,
               batch_x |-> <<>>, batch_y |-> <<>>, raised |-> "" ]

InitIter ==
    /\ it_args \in IterArgs
    /\ self = NewObject
    /\ batch_index = 0
    /\ total_batches_seen = 0
    /\ index_array = <<>>
    /\ gen_state = "running"
    /\ lock = NoThread
    /\ pc = [ t \in Threads |-> "idle" ]
    /\ frame = [ t \in Threads |-> IdleFrame ]

\* the caller constructs the iterator
New ==
    /\ self.status = "new"
    /\ self' = Construct(it_args)
    /\ UNCHANGED << it_args, batch_index, total_batches_seen, index_array,
                    gen_state, lock, pc, frame, notIter >>


\* np.arange(n)
Arange(n) == [ i \in 1..n |-> i - 1 ]

\* the values np.random.permutation(n) can return
RandomPermutations(n) ==
    { p \in [ 1..n -> 0..(n - 1) ] : \A i, j \in 1..n : p[i] = p[j] => i = j }

\* a variant of the with statement that does not wait for the lock
AcquireNoWait(t) ==
    /\ pc[t] = "idle"
    /\ self.status = "ok"
    /\ total_batches_seen < MaxBatches
    /\ lock' = t
    /\ pc' = [ pc EXCEPT ![t] = "locked" ]
    /\ UNCHANGED << it_args, self, batch_index, total_batches_seen,
                    index_array, gen_state, frame, notIter >>

\* next(): `with self.lock` is entered, once the lock is free
Acquire(t) ==
    /\ pc[t] = "idle"
    /\ self.status = "ok"
    /\ total_batches_seen < MaxBatches
    /\ lock = NoThread
    /\ lock' = t
    /\ pc' = [ pc EXCEPT ![t] = "locked" ]
    /\ UNCHANGED << it_args, self, batch_index, total_batches_seen,
                    index_array, gen_state, frame, notIter >>

\* next(self.index_generator) inside the with block: one round of the loop
\* of the base class's index generator over n = self.samples, which starts an
\* epoch when batch_index is 0 and raises ZeroDivisionError for n = 0; a
\* generator that an exception has left raises StopIteration
Allocate(t) ==
    /\ pc[t] = "locked"
    /\ IF gen_state = "finished"
       THEN /\ frame' = [ frame EXCEPT ![t].raised = "StopIteration" ]
            /\ pc' = [ pc EXCEPT ![t] = "unwind" ]
            /\ UNCHANGED << batch_index, total_batches_seen, index_array,
                            gen_state >>
       ELSE IF self.samples = 0
       THEN /\ index_array' = <<>>
            /\ gen_state' = "finished"
            /\ frame' = [ frame EXCEPT ![t].raised = "ZeroDivisionError" ]
            /\ pc' = [ pc EXCEPT ![t] = "unwind" ]
            /\ UNCHANGED << batch_index, total_batches_seen >>
       ELSE \E arr \in IF batch_index # 0 THEN { index_array }
                       ELSE IF it_args.shuffle THEN RandomPermutations(self.samples)
                       ELSE { Arange(self.samples) } :
              LET n == self.samples
                  current_index == (batch_index * it_args.batch_size) % n
                  whole == n > current_index + it_args.batch_size
                  current_batch_size ==
                      IF whole THEN it_args.batch_size ELSE n - current_index
              IN  /\ index_array' = arr
                  /\ batch_index' = IF whole THEN batch_index + 1 ELSE 0
                  /\ total_batches_seen' = total_batches_seen + 1
                  /\ frame' = [ frame EXCEPT
                       ![t].index_array =
                           SubSeq(arr, current_index + 1,
                                  current_index + current_batch_size),
                       ![t].current_index = current_index ]
                  /\ pc' = [ pc EXCEPT ![t] = "allocated" ]
                  /\ UNCHANGED gen_state
    /\ UNCHANGED << it_args, self, lock, notIter >>

\* the with block is left: the lock is released, and the call goes on to
\* build batch_x, or the exception of the generator propagates
Release(t) ==
    /\ pc[t] \in { "allocated", "unwind" }
    /\ lock' = NoThread
    /\ pc' = [ pc EXCEPT ![t] = IF pc[t] = "allocated" THEN "loading"
                                 ELSE "raised" ]
    /\ frame' = [ frame EXCEPT ![t].i = 0 ]
    /\ UNCHANGED << it_args, self, batch_index, total_batches_seen,
                    index_array, gen_state, notIter >>

\* one round of the loop over index_array: the image of self.filenames[j] is
\* loaded, transformed and stored in batch_x[i]
LoadSample(t) ==
    /\ pc[t] = "loading"
    /\ frame[t].i < Len(frame[t].index_array)
    /\ LET j == frame[t].index_array[frame[t].i + 1]
       IN  frame' = [ frame EXCEPT
             ![t].batch_x = Append(@, self.filenames[j + 1]),
             ![t].i = @ + 1 ]
    /\ UNCHANGED << it_args, self, batch_index, total_batches_seen,
                    index_array, gen_state, lock, pc, notIter >>

\* a variant of the failing load that hands the batch's indices back
LoadFailsRewinds(t) ==
    /\ pc[t] = "loading"
    /\ frame[t].i < Len(frame[t].index_array)
    /\ frame' = [ frame EXCEPT ![t].raised = "IOError" ]
    /\ pc' = [ pc EXCEPT ![t] = "raised" ]
    /\ batch_index' = frame[t].current_index \div it_args.batch_size
    /\ total_batches_seen' = total_batches_seen - 1
    /\ UNCHANGED << it_args, self, index_array, gen_state, lock, notIter >>

\* one round of the loop over index_array in which load_img, img_to_array,
\* random_transform or standardize raises: the exception leaves next()
LoadFails(t) ==
    /\ pc[t] = "loading"
    /\ frame[t].i < Len(frame[t].index_array)
    /\ frame' = [ frame EXCEPT ![t].raised = "IOError" ]
    /\ pc' = [ pc EXCEPT ![t] = "raised" ]
    /\ UNCHANGED << it_args, self, batch_index, total_batches_seen,
                    index_array, gen_state, lock, notIter >>

\* the one-hot row of a class id: batch_y[i, label] = 1.
OneHot(label, num_class) ==
    [ k \in 1..num_class |-> IF k = label + 1 THEN 1 ELSE 0 ]

\* batch_y for the batch's index_array, by class mode
BatchLabels(class_mode, classes, idx, num_class) ==
    IF class_mode = "categorical"
    THEN [ i \in DOMAIN idx |-> OneHot(classes[idx[i] + 1], num_class) ]
    ELSE IF class_mode \in { "sparse", "binary" }
    THEN [ i \in DOMAIN idx |-> classes[idx[i] + 1] ]
    ELSE <<>>

\* the labels are built and next() returns the batch
BuildLabels(t) ==
    /\ pc[t] = "loading"
    /\ frame[t].i = Len(frame[t].index_array)
    /\ frame' = [ frame EXCEPT ![t].batch_y =
                    BatchLabels(self.class_mode, self.classes,
                                frame[t].index_array, self.num_class) ]
    /\ pc' = [ pc EXCEPT ![t] = "returned" ]
    /\ UNCHANGED << it_args, self, batch_index, total_batches_seen,
                    index_array, gen_state, lock, notIter >>

\* the caller takes the batch, or the exception, and may call again
Return(t) ==
    /\ pc[t] \in { "returned", "raised" }
    /\ pc' = [ pc EXCEPT ![t] = "idle" ]
    /\ frame' = [ frame EXCEPT ![t] = IdleFrame ]
    /\ UNCHANGED << it_args, self, batch_index, total_batches_seen,
                    index_array, gen_state, lock, notIter >>

NextIter ==
    \/ New
    \/ \E t \in Threads : Acquire(t)
    \/ \E t \in Threads : Allocate(t)
    \/ \E t \in Threads : Release(t)
    \/ \E t \in Threads : LoadSample(t)
    \/ \E t \in Threads : LoadFails(t)
    \/ \E t \in Threads : BuildLabels(t)
    \/ \E t \in Threads : Return(t)

(***************************************************************************)
(* except_catcher, the generator wrapped around a producer gen.            *)
(***************************************************************************)
\* errors a pull may raise that are instances of Exception; StopIteration is
\* what an exhausted or broken-off producer raises
ExceptionKinds == { "IOError", "StopIteration" }

\* raised things that are not instances of Exception
BaseOnlyKinds == { "KeyboardInterrupt" }

\* an "iterator" object may raise on one pull and return on the next; a
\* "generator" that raised is finished and raises StopIteration from then on
ProducerKinds == { "iterator", "generator" }

InitCatch ==
    /\ producer \in [ kind : ProducerKinds, alive : { TRUE } ]
    /\ pulls = <<>>
    /\ yielded = <<>>
    /\ printed = 0
    /\ catcher = "suspended"       \* not started yet, later: at its yield

\* the consumer calls next() on the wrapped sequence
Resume ==
    /\ catcher = "suspended"
    /\ Len(pulls) < MaxPulls
    /\ catcher' = "running"
    /\ UNCHANGED << producer, pulls, yielded, printed, notCatch >>

\* data = next(gen) returns and the wrapper yields data: the model's
\* producer returns the number of the pull
PullReturns ==
    /\ catcher = "running"
    /\ Len(pulls) < MaxPulls
    /\ producer.alive
    /\ pulls' = Append(pulls, "ok")
    /\ yielded' = Append(yielded, Len(pulls) + 1)
    /\ catcher' = "suspended"
    /\ UNCHANGED << producer, printed, notCatch >>

\* what raising does to the producer
AfterRaise(p) == [ p EXCEPT !.alive = (p.kind = "iterator") ]

\* a variant of the handler that gives up on the first exception
PullRaisesBreak(kind) ==
    /\ catcher = "running"
    /\ Len(pulls) < MaxPulls
    /\ kind \in ExceptionKinds
    /\ producer.alive \/ kind = "StopIteration"
    /\ pulls' = Append(pulls, kind)
    /\ producer' = AfterRaise(producer)
    /\ printed' = printed + 1
    /\ catcher' = "finished"
    /\ UNCHANGED << yielded, notCatch >>

\* next(gen) raises an instance of Exception: the except clause prints the
\* diagnostic and the while loop goes round again
PullRaises(kind) ==
    /\ catcher = "running"
    /\ Len(pulls) < MaxPulls
    /\ kind \in ExceptionKinds
    /\ producer.alive \/ kind = "StopIteration"
    /\ pulls' = Append(pulls, kind)
    /\ producer' = AfterRaise(producer)
    /\ printed' = printed + 1
    /\ catcher' = "running"
    /\ UNCHANGED << yielded, notCatch >>

\* next(gen) raises something that is no Exception: no clause catches it, it
\* leaves the wrapper, which is finished
PullRaisesBase(kind) ==
    /\ catcher = "running"
    /\ Len(pulls) < MaxPulls
    /\ kind \in BaseOnlyKinds
    /\ producer.alive
    /\ pulls' = Append(pulls, kind)
    /\ producer' = AfterRaise(producer)
    /\ catcher' = "finished"
    /\ UNCHANGED << yielded, printed, notCatch >>

NextCatch ==
    \/ Resume
    \/ PullReturns
    \/ \E kind \in ExceptionKinds : PullRaises(kind)
    \/ \E kind \in BaseOnlyKinds : PullRaisesBase(kind)

(***************************************************************************)
(* Config and its identifier.  A value is a record with its Python type as *)
(* kind; text is a TLA+ string.                                            *)
(***************************************************************************)
V_int(n)      == [ kind |-> "int", v |-> n ]
V_float(m, e) == [ kind |-> "float", m |-> m, e |-> e ]    \* m / 10^e
V_str(text)   == [ kind |-> "str", v |-> text ]
V_bool(b)     == [ kind |-> "bool", v |-> b ]
V_list(items) == [ kind |-> "list", items |-> items ]
V_tuple(items) == [ kind |-> "tuple", items |-> items ]
V_none        == [ kind |-> "NoneType" ]
V_config(d)   == [ kind |-> "Config", dict |-> d ]

\* the classes a value of a type is an instance of: bool is a subclass of int
TypeMro(kind) == IF kind = "bool" THEN { "bool", "int" } ELSE { kind }

\* isinstance(attr, kinds)
IsInstance(attr, kinds) == TypeMro(attr.kind) \cap kinds # {}

RECURSIVE IntStr(_)
\* str(n) for an integer
IntStr(n) ==
    IF n < 0 THEN "-" \o IntStr(0 - n)
    ELSE IF n < 10 THEN DIGITS[n + 1]
    ELSE IntStr(n \div 10) \o DIGITS[(n % 10) + 1]

RECURSIVE Pow10(_)
Pow10(e) == IF e = 0 THEN 1 ELSE 10 * Pow10(e - 1)

RECURSIVE PadZeros(_, _)
PadZeros(text, width) ==
    IF Len(text) >= width THEN text ELSE PadZeros("0" \o text, width)

\* str(x) for the float m / 10^e, m not a multiple of 10 unless e = 0, in the
\* range where Python prints positional notation
FloatStr(m, e) ==
    IF e = 0 THEN IntStr(m) \o ".0"
    ELSE IntStr(m \div Pow10(e)) \o "." \o PadZeros(IntStr(m % Pow10(e)), e)

\* str(attr) for the values that reach it
Str(attr) ==
    CASE attr.kind = "int"      -> IntStr(attr.v)
      [] attr.kind = "float"    -> FloatStr(attr.m, attr.e)
      [] attr.kind = "str"      -> attr.v
      [] attr.kind = "bool"     -> IF attr.v THEN "True" ELSE "False"
      [] attr.kind = "NoneType" -> "None"

RECURSIVE Join(_, _)
\* sep.join(texts)
Join(sep, texts) ==
    IF texts = <<>> THEN ""
    ELSE IF Len(texts) = 1 THEN texts[1]
    ELSE texts[1] \o sep \o Join(sep, Tail(texts))

\* field names in ascending order of Python's string comparison
NameOrder == << "aug", "data", "deep", "epochs", "flag", "h",
                "identifier_fields", "inner", "is_main", "k", "lr", "opt",
                "scope", "size", "w" >>

\* sorted(names)
Sorted(names) == SelectSeqBy(NameOrder, names)

\* Config._process_attr
ProcessAttr(attr) ==
    IF IsInstance(attr, { "int", "float", "str" })
    THEN [ value |-> Str(attr) ]
    ELSE IF IsInstance(attr, { "list", "tuple" })
    THEN [ value |-> Join("x", [ i \in DOMAIN attr.items |-> Str(attr.items[i]) ]) ]
    ELSE IF IsInstance(attr, { "bool" })
    THEN [ value |-> (IF attr.v THEN "YES" ELSE "NO") \o Str(attr) ]
    ELSE Raised("TypeError")

\* _get_fields(attr)
GetFields(attr) ==
    IF IsInstance(attr, { "Config" })
    THEN LET keys == Sorted(DOMAIN attr.dict)
         IN  [ i \in DOMAIN keys |-> attr.dict[keys[i]] ]
    ELSE << attr >>

\* the keyword arguments as a dictionary
KwDict(kw) ==
    [ name \in { kw[i][1] : i \in DOMAIN kw } |->
        kw[CHOOSE i \in DOMAIN kw : kw[i][1] = name][2] ]

\* Config.__init__(**kwargs): the object, as its __dict__
ConfigInit(kw) ==
    LET attrs == KwDict(kw)
        names == Sorted(DOMAIN attrs \ { "scope" })
        identifier_fields ==
            Flatten([ i \in DOMAIN names |-> GetFields(attrs[names[i]]) ])
    IN  IF "scope" \in DOMAIN attrs
        THEN V_config([ name \in DOMAIN attrs \cup { "is_main", "identifier_fields" } |->
                          IF name = "is_main" THEN V_bool(TRUE)
                          ELSE IF name = "identifier_fields"
                          THEN V_list(identifier_fields)
                          ELSE attrs[name] ])
        ELSE V_config(attrs)

\* the property Config.identifier: the text, or the error raised.  Reading
\* self.is_main of an object without it raises AttributeError as well.
Identifier(obj) ==
    IF "is_main" \notin DOMAIN obj.dict THEN Raised("AttributeError")
    ELSE IF ~obj.dict["is_main"].v THEN Raised("AttributeError")
    ELSE LET fields == obj.dict["identifier_fields"].items
             parts  == [ i \in DOMAIN fields |-> ProcessAttr(fields[i]) ]
         IN  IF \E i \in DOMAIN parts : IsRaised(parts[i])
             THEN Raised("TypeError")
             ELSE [ value |-> obj.dict["scope"].v \o "_"
                                \o Join("_", [ i \in DOMAIN parts |-> parts[i].value ]) ]

\* the keyword arguments the model's calls are made of
NestedFlag == V_config([ name \in { "flag" } |-> V_bool(TRUE) ])
NestedSize == V_config([ name \in { "w", "h" } |->
                           IF name = "w" THEN V_int(2) ELSE V_int(1) ])
NestedDeep == V_config([ name \in { "inner" } |->
                           V_config([ n \in { "k" } |-> V_int(3) ]) ])

KwargChoices ==
    { << "scope", V_str("run") >>,
      << "lr", V_float(1, 2) >>,
      << "epochs", V_int(10) >>,
      << "aug", V_bool(TRUE) >>,
      << "aug", V_bool(FALSE) >>,
      << "aug", NestedFlag >>,
      << "size", V_tuple(<< V_int(224), V_int(224) >>) >>,
      << "opt", V_none >>,
      << "data", NestedSize >>,
      << "deep", NestedDeep >> }

NoConfig == [ kind |-> "unset" ]
NoResult == [ pending |-> TRUE ]

InitConfig ==
    /\ kwargs = <<>>
    /\ config = NoConfig
    /\ result = NoResult

\* the caller writes one more keyword argument
AddKwarg(kv) ==
    /\ config = NoConfig
    /\ Len(kwargs) < MaxKwargs
    /\ \A i \in DOMAIN kwargs : kwargs[i][1] # kv[1]
    /\ kwargs' = Append(kwargs, kv)
    /\ UNCHANGED << config, result, notConfig >>

\* Config(**kwargs)
NewConfig ==
    /\ config = NoConfig
    /\ config' = ConfigInit(kwargs)
    /\ UNCHANGED << kwargs, result, notConfig >>

\* config.identifier is read
ReadIdentifier ==
    /\ config # NoConfig
    /\ result = NoResult
    /\ result' = Identifier(config)
    /\ UNCHANGED << kwargs, config, notConfig >>

NextConfig ==
    \/ \E kv \in KwargChoices : AddKwarg(kv)
    \/ NewConfig
    \/ ReadIdentifier

(***************************************************************************)
(* except_catcher wrapped around an ImageListIterator, as get_generators   *)
(* returns it, pulled by one consumer.                                     *)
(***************************************************************************)
\* the thread that pulls the wrapped sequence
Consumer == "t1"

\* what next() had been allocated when it returned or raised
Allocation(f) == [ index_array |-> f.index_array,
                   current_index |-> f.current_index ]

\* the value next() returns: batch_x alone without class mode, or the pair
Batch(f) == [ x |-> f.batch_x, y |-> f.batch_y ]

\* data = next(gen): the wrapper, resumed, calls next() of the iterator
PipeCall ==
    /\ catcher = "running"
    /\ Len(pulls) < MaxPulls
    /\ Acquire(Consumer)

\* next(gen) returns a batch and the wrapper yields it
PipeYield ==
    /\ catcher = "running"
    /\ pc[Consumer] = "returned"
    /\ pulls' = Append(pulls, "ok")
    /\ yielded' = Append(yielded, Batch(frame[Consumer]))
    /\ allocations' = Append(allocations, Allocation(frame[Consumer]))
    /\ catcher' = "suspended"
    /\ pc' = [ pc EXCEPT ![Consumer] = "idle" ]
    /\ frame' = [ frame EXCEPT ![Consumer] = IdleFrame ]
    /\ UNCHANGED << it_args, self, batch_index, total_batches_seen,
                    index_array, gen_state, lock, producer, printed, notPipe >>

\* next(gen) raises: every error of the model's next() is an instance of
\* Exception, the handler prints it and the while loop goes round again
PipeCatch ==
    /\ catcher = "running"
    /\ pc[Consumer] = "raised"
    /\ pulls' = Append(pulls, frame[Consumer].raised)
    /\ printed' = printed + 1
    /\ allocations' = Append(allocations, Allocation(frame[Consumer]))
    /\ pc' = [ pc EXCEPT ![Consumer] = "idle" ]
    /\ frame' = [ frame EXCEPT ![Consumer] = IdleFrame ]
    /\ UNCHANGED << it_args, self, batch_index, total_batches_seen,
                    index_array, gen_state, lock, producer, yielded, catcher,
                    notPipe >>

NextPipe ==
    \/ New
    \/ Resume
    \/ PipeCall
    \/ Allocate(Consumer)
    \/ Release(Consumer)
    \/ LoadSample(Consumer)
    \/ LoadFails(Consumer)
    \/ BuildLabels(Consumer)
    \/ PipeYield
    \/ PipeCatch

(***************************************************************************)
(* Specifications: each runs one component and leaves the others at rest.  *)
(***************************************************************************)
RestIndex ==
    /\ tree = [ p \in { <<>> } |-> EmptyDir ]
    /\ validation_pct = 0
    /\ image_lists = <<>>
    /\ indexed = FALSE
    /\ assigned = [ f \in FileNames |-> {} ]

RestIter ==
    /\ it_args = [ lists |-> ListsOneClass, category |-> "training",
                   batch_size |-> 1, shuffle |-> FALSE,
                   class_mode |-> "categorical" ]
    /\ self = NewObject
    /\ batch_index = 0
    /\ total_batches_seen = 0
    /\ index_array = <<>>
    /\ gen_state = "running"
    /\ lock = NoThread
    /\ pc = [ t \in Threads |-> "idle" ]
    /\ frame = [ t \in Threads |-> IdleFrame ]

RestCatch ==
    /\ producer = [ kind |-> "iterator", alive |-> TRUE ]
    /\ pulls = <<>>
    /\ yielded = <<>>
    /\ printed = 0
    /\ catcher = "suspended"

RestConfig == InitConfig

RestPipe == allocations = <<>>

IndexStart  == InitIndex /\ RestIter /\ RestCatch /\ RestConfig /\ RestPipe
IterStart   == RestIndex /\ InitIter /\ RestCatch /\ RestConfig /\ RestPipe
CatchStart  == RestIndex /\ RestIter /\ InitCatch /\ RestConfig /\ RestPipe
ConfigStart == RestIndex /\ RestIter /\ RestCatch /\ InitConfig /\ RestPipe
PipeStart   == RestIndex /\ InitIter /\ RestCatch /\ RestConfig /\ RestPipe

SpecIndex  == IndexStart /\ [][NextIndex]_vars

SpecIter   == IterStart /\ [][NextIter]_vars

SpecCatch  == CatchStart /\ [][NextCatch]_vars

SpecConfig == ConfigStart /\ [][NextConfig]_vars

SpecPipe   == PipeStart /\ [][NextPipe]_vars

Init == InitIndex /\ InitIter /\ InitCatch /\ InitConfig /\ RestPipe

Next == NextIndex \/ NextIter \/ NextCatch \/ NextConfig \/ NextPipe

\* the whole program; the claims are checked component by component
Spec == Init /\ [][Next]_vars

(***************************************************************************)
(* Properties of the indexer.                                              *)
(***************************************************************************)
\* name ends with "." followed by the extension, after at least one character
\* that is not a leading dot
HasExtension(name, extension) ==
    /\ Len(name) > Len(extension) + 1
    /\ name[1] # "."
    /\ SubSeq(name, Len(name) - Len(extension), Len(name)) = <<".">> \o extension

\* the image files located directly in the directory at path
ImagesIn(t, path) ==
    IF path \in DOMAIN t
    THEN { f \in Range(t[path].files) :
             \E e \in VALID_IMAGE_FORMATS : HasExtension(f, e) }
    ELSE {}

Listed(record) == Range(record.training) \cup Range(record.validation)

\* C1: in the index, for every label the training and validation lists are
\* disjoint, and every image file of the record's class directory is in
\* exactly one of the two lists
C1_DisjointAndCovered ==
    indexed =>
      \A l \in DOMAIN image_lists :
        LET record == image_lists[l]
        IN  /\ Range(record.training) \cap Range(record.validation) = {}
            /\ \A f \in ImagesIn(tree, <<record.dir>>) :
                 (f \in Range(record.training)) # (f \in Range(record.validation))

C1_Witness ==
    /\ indexed
    /\ \E l \in DOMAIN image_lists :
         /\ image_lists[l].training # <<>>
         /\ image_lists[l].validation # <<>>
         /\ ImagesIn(tree, <<image_lists[l].dir>>) = Listed(image_lists[l])

\* r * 100 / (2^27 - 1) < pct for a residue r and an integer pct: with
\* 2^27 - 1 = 100 * 1342177 + 27 this is r < pct * 1342177 + ceil(pct * 27 / 100)
ScaledBelow(r, pct) == r < pct * 1342177 + (pct * 27 + 99) \div 100

\* C2: a listed file is in validation if and only if its residue, scaled by
\* 100 / (2^27 - 1), is strictly below validation_pct, and in training
\* otherwise; with validation_pct = 0 no file is in validation
C2_HashRule ==
    indexed =>
      \A l \in DOMAIN image_lists :
        /\ \A f \in Listed(image_lists[l]) :
             /\ (f \in Range(image_lists[l].validation))
                  <=> ScaledBelow(Sha1Mod(f), validation_pct)
             /\ (f \in Range(image_lists[l].training))
                  <=> ~ScaledBelow(Sha1Mod(f), validation_pct)
        /\ (validation_pct = 0 => image_lists[l].validation = <<>>)

C2_Witness ==
    /\ indexed
    /\ validation_pct = 10
    /\ \E l \in DOMAIN image_lists :
         /\ F_zero \in Range(image_lists[l].validation)
         /\ F_mid \in Range(image_lists[l].training)

\* C3: over all indexing runs made with one validation percentage, on any
\* file systems and with any listing orders, a base name is only ever put
\* in one category
C3_Deterministic == \A f \in FileNames : Cardinality(assigned[f]) <= 1

C3_Witness ==
    /\ indexed
    /\ \E l1, l2 \in DOMAIN image_lists :
         /\ image_lists[l1].dir # image_lists[l2].dir
         /\ \E f \in Listed(image_lists[l1]) \cap Listed(image_lists[l2]) :
              assigned[f] # {}

\* the immediate sub-directories of the root that hold an image file
ClassDirs(t) == { d \in Range(t[<<>>].dirs) : ImagesIn(t, <<d>>) # {} }

\* C6: the index holds exactly one record for each immediate sub-directory
\* of the root that holds an image file and none for any other: as many
\* records as such sub-directories, each under the normalized label of its
\* sub-directory and with that sub-directory's raw name as 'dir'
C6_OneRecordPerClassDir ==
    indexed =>
      /\ Cardinality(DOMAIN image_lists) = Cardinality(ClassDirs(tree))
      /\ \A d \in ClassDirs(tree) :
           /\ LabelName(d) \in DOMAIN image_lists
           /\ image_lists[LabelName(d)].dir = d
      /\ \A l \in DOMAIN image_lists : image_lists[l].dir \in ClassDirs(tree)

\* C7: every file name in a record's lists is an image file located directly
\* in <root>/<the record's dir>
C7_ListedFilesInClassDir ==
    indexed =>
      \A l \in DOMAIN image_lists :
        Listed(image_lists[l]) \subseteq ImagesIn(tree, <<image_lists[l].dir>>)

(***************************************************************************)
(* Properties of the iterator.                                             *)
(***************************************************************************)
\* the positions of next() inside the with block
InLock == { "locked", "allocated", "unwind" }

\* a step that changes the state shared through the index generator
CursorChanges ==
    \/ batch_index' # batch_index
    \/ total_batches_seen' # total_batches_seen
    \/ index_array' # index_array
    \/ gen_state' # gen_state

\* C4: at most one thread at a time is inside the index-allocation step, the
\* lock is held exactly by a thread inside that step and so not while it
\* loads, transforms and standardizes images, and the shared cursor and epoch
\* state changes only in a step of the thread that holds the lock
C4_LockDiscipline ==
    /\ [](\A t1, t2 \in Threads :
            (pc[t1] \in InLock /\ pc[t2] \in InLock) => t1 = t2)
    /\ [](\A t \in Threads : (lock = t) <=> (pc[t] \in InLock))
    /\ [][CursorChanges =>
            \E t \in Threads : lock = t /\ pc[t] = "locked" /\ pc'[t] # pc[t]]_vars

C4_Witness ==
    \E t1, t2 \in Threads :
       /\ t1 # t2
       /\ pc[t1] = "loading" /\ frame[t1].i = 1
       /\ pc[t2] = "loading" /\ frame[t2].i = 0
       /\ lock = NoThread
       /\ total_batches_seen = 2

\* the paths of the files in a label's list of the iterator's category
LabelPaths(l) ==
    { << IterImageDir, it_args.lists.dict[l].dir, f >> :
        f \in Range(it_args.lists.dict[l][it_args.category]) }

\* C8: in categorical mode every row of a returned batch's labels holds one
\* 1 and 0 elsewhere, and the 1 is at the class index of a label whose list
\* for the category holds the file loaded into that slot
C8_OneHotMatchesFile ==
    \A t \in Threads :
      (pc[t] = "returned" /\ it_args.class_mode = "categorical") =>
        /\ Len(frame[t].batch_y) = Len(frame[t].batch_x)
        /\ \A i \in DOMAIN frame[t].batch_x :
             LET row == frame[t].batch_y[i]
             IN  /\ DOMAIN row = 1..Len(it_args.lists.keys)
                 /\ \A k \in DOMAIN row : row[k] \in { 0, 1 }
                 /\ Cardinality({ k \in DOMAIN row : row[k] = 1 }) = 1
                 /\ \A k \in DOMAIN row :
                      row[k] = 1 =>
                        frame[t].batch_x[i] \in LabelPaths(it_args.lists.keys[k])

C8_Witness ==
    \E t \in Threads :
       /\ pc[t] = "returned"
       /\ it_args.class_mode = "categorical"
       /\ it_args.lists = ListsTwoClasses
       /\ Len(frame[t].batch_x) = 2
       /\ frame[t].batch_y[1] # frame[t].batch_y[2]

\* some label has an empty list for the requested category
SomeLabelEmpty ==
    \E l \in Range(it_args.lists.keys) :
       /\ it_args.category \in DOMAIN it_args.lists.dict[l]
       /\ it_args.lists.dict[l][it_args.category] = <<>>

RECURSIVE SumOfLens(_, _, _)
SumOfLens(dict, keys, category) ==
    IF keys = <<>> THEN 0
    ELSE Len(dict[Head(keys)][category]) + SumOfLens(dict, Tail(keys), category)

\* C9 as claimed: constructing the iterator fails with a lookup error
\* whenever some label has no entries for the category
C9_EmptyCategoryRaises ==
    (self.status # "new" /\ SomeLabelEmpty) =>
       self.status \in { "ValueError", "KeyError" }

\* C9 amended: with valid modes, constructing the iterator does not fail when
\* some label has no entries for the category; it returns an iterator whose
\* samples are the entries of all labels, the empty label adding none, and
\* the error for an empty list is raised only by get_image_path itself
C9_EmptyCategoryConstructs ==
    ( /\ self.status # "new"
      /\ SomeLabelEmpty
      /\ it_args.class_mode \in { "categorical", "binary", "sparse", "None" } ) =>
       /\ self.status = "ok"
       /\ self.samples = SumOfLens(it_args.lists.dict, it_args.lists.keys,
                                   it_args.category)
       /\ Len(self.filenames) = self.samples
       /\ \A l \in Range(it_args.lists.keys) :
            it_args.lists.dict[l][it_args.category] = <<>> =>
              get_image_path(it_args.lists.dict, l, 0, IterImageDir,
                             it_args.category) = Raised("ValueError")

C9_Witness ==
    /\ self.status = "ok"
    /\ SomeLabelEmpty
    /\ it_args.lists = ListsTwoClasses
    /\ self.samples = 1
    /\ \E t \in Threads : pc[t] = "returned"

(***************************************************************************)
(* Properties of except_catcher.                                           *)
(***************************************************************************)
RECURSIVE OkPulls(_, _)
\* the numbers of the pulls that returned, in order, from pull number k on
OkPulls(log, k) ==
    IF log = <<>> THEN <<>>
    ELSE IF Head(log) = "ok" THEN << k >> \o OkPulls(Tail(log), k + 1)
    ELSE OkPulls(Tail(log), k + 1)

\* C5: a pull on which the producer raises an error does not end the wrapped
\* sequence and is not propagated: a diagnostic is printed for it, and the
\* sequence yields exactly the values of the pulls that returned, in order
C5_ErrorsSkipped ==
    /\ yielded = OkPulls(pulls, 1)
    /\ printed = Cardinality({ k \in DOMAIN pulls : pulls[k] \in ExceptionKinds })
    /\ (\A k \in DOMAIN pulls : pulls[k] \notin BaseOnlyKinds) =>
          catcher # "finished"

C5_Witness ==
    /\ pulls = << "ok", "ok", "IOError", "ok", "ok" >>
    /\ yielded = << 1, 2, 4, 5 >>
    /\ printed = 1
    /\ catcher = "suspended"

(***************************************************************************)
(* Properties of the identifier.                                           *)
(***************************************************************************)
\* the rendering of a leaf value as specified: a number or string as its
\* string form, a list or tuple joined by "x", a boolean as YES or NO
\* followed by its literal
SpecifiedRendering(attr) ==
    CASE attr.kind \in { "int", "float", "str" } -> Str(attr)
      [] attr.kind \in { "list", "tuple" } ->
            Join("x", [ i \in DOMAIN attr.items |-> Str(attr.items[i]) ])
      [] attr.kind = "bool" -> (IF attr.v THEN "YES" ELSE "NO") \o Str(attr)

\* the call of the worked example: scope "run", lr = 0.01, epochs = 10 and a
\* nested boolean under aug
ExampleCall ==
    Range(kwargs) = { << "scope", V_str("run") >>, << "lr", V_float(1, 2) >>,
                      << "epochs", V_int(10) >>, << "aug", NestedFlag >> }

\* C10: the identifier is the scope name, an underscore and the renderings
\* of the leaf values joined by underscores, each rendered as specified; the
\* worked example yields run_YESTrue_10_0.01
C10_IdentifierRendering ==
    ( /\ "value" \in DOMAIN result
      /\ \A i \in DOMAIN config.dict["identifier_fields"].items :
           config.dict["identifier_fields"].items[i].kind
              \in { "int", "float", "str", "list", "tuple", "bool" } ) =>
       LET fields == config.dict["identifier_fields"].items
       IN  /\ result.value =
                config.dict["scope"].v \o "_"
                  \o Join("_", [ i \in DOMAIN fields |-> SpecifiedRendering(fields[i]) ])
           /\ ExampleCall => result.value = "run_YESTrue_10_0.01"

RECURSIVE Leaves(_)
\* the scalar leaves reachable from a value, nested configurations entered
\* at every level with their fields in ascending name order
Leaves(attr) ==
    IF attr.kind = "Config"
    THEN LET keys == Sorted(DOMAIN attr.dict)
         IN  Flatten([ i \in DOMAIN keys |-> Leaves(attr.dict[keys[i]]) ])
    ELSE << attr >>

\* the leaves of all non-scope keyword arguments, whatever order they were
\* given in
LeavesOfCall ==
    LET attrs == KwDict(kwargs)
        names == Sorted(DOMAIN attrs \ { "scope" })
    IN  Flatten([ i \in DOMAIN names |-> Leaves(attrs[names[i]]) ])

\* C11: the identifier of a scope-marked Config whose fields nest Configs to
\* any depth holds one rendered entry for every scalar leaf reachable from
\* every non-scope field, fields visited in ascending name order at every
\* level, whatever the order of the keyword arguments
C11_EveryLeafInNameOrder ==
    ( /\ result # NoResult
      /\ \E i \in DOMAIN kwargs : kwargs[i][1] = "scope"
      /\ \A i \in DOMAIN LeavesOfCall : ~IsRaised(ProcessAttr(LeavesOfCall[i])) ) =>
       result = [ value |->
                    KwDict(kwargs)["scope"].v \o "_"
                      \o Join("_", [ i \in DOMAIN LeavesOfCall |->
                                       ProcessAttr(LeavesOfCall[i]).value ]) ]

(***************************************************************************)
(* Properties of the wrapped iterator.                                     *)
(***************************************************************************)
\* the pulls in which next() raised while it loaded a sample
Dropped == { k \in DOMAIN pulls : pulls[k] = "IOError" }

\* the numbers of the pulls that returned a batch, in order
Served == OkPulls(pulls, 1)

\* pulls k and l, k < l, belong to one epoch: no allocation after k up to l
\* starts at index 0
SameEpoch(k, l) ==
    \A m \in (k + 1)..l : allocations[m].current_index # 0

\* the files of an allocation
FilesOf(a) == [ i \in DOMAIN a.index_array |-> self.filenames[a.index_array[i] + 1] ]

\* C12: a pull through except_catcher that fails while a sample is loaded
\* has consumed its indices, so its batch is dropped: the allocation of the
\* next pull starts where the dropped one ended, the wrapped sequence yields
\* exactly the batches of the pulls that returned, each built from its own
\* allocation, and no batch yielded later in the same epoch holds an index
\* of the dropped batch
C12_FailedBatchDropped ==
    /\ Len(allocations) = Len(pulls)
    /\ \A k \in Dropped :
         /\ allocations[k].index_array # <<>>
         /\ (k + 1) \in DOMAIN allocations /\ allocations[k + 1].index_array # <<>> =>
              allocations[k + 1].current_index =
                 (allocations[k].current_index + Len(allocations[k].index_array))
                    % self.samples
    /\ Len(yielded) = Len(Served)
    /\ \A m \in DOMAIN yielded :
         yielded[m].x = FilesOf(allocations[Served[m]])
    /\ \A k \in Dropped : \A l \in DOMAIN pulls :
         (k < l /\ pulls[l] = "ok" /\ SameEpoch(k, l)) =>
            Range(allocations[k].index_array)
               \cap Range(allocations[l].index_array) = {}

C12_Witness ==
    /\ pulls = << "IOError", "ok", "ok" >>
    /\ allocations[1].index_array = << 0, 1 >>
    /\ allocations[2].index_array = << 2 >>
    /\ allocations[3].index_array = << 0, 1 >>
    /\ Len(yielded) = 2
    /\ yielded[1].x = << << "img", "c", "x.jpg" >> >>
    /\ printed = 1

====
